---- MODULE Spec2Model ----
(***************************************************************************)
(* Double-buffered metadata persistence of src/src/uv_metadata.c:          *)
(* the record codec (encode/decode), slot naming (indexOf/filenameOf),     *)
(* recovery (loadFile/uvMetadataLoad/ensure) and the write path            *)
(* (uvMetadataStore), run by one sequential process that may crash at any  *)
(* step.                                                                   *)
(*                                                                         *)
(* A 64-bit unsigned value is a tuple of 8 bytes, most significant first,  *)
(* so that the code's narrowing conversions (uint64 -> unsigned at line    *)
(* 29, uint64 -> int at line 139) and the wrap-around of version++ keep    *)
(* their width.                                                            *)
(***************************************************************************)
EXTENDS Integers, Sequences, FiniteSets, TLC

VARIABLES
    disk,       \* the directory: file name -> [exists, data (bytes)]
    pc,         \* position of the process: idle / inside load / inside store
    metadata1,  \* uvMetadataLoad's local metadata1
    metadata2,  \* uvMetadataLoad's local metadata2
    metadata,   \* the struct uvMetadata the running call works on
    i,          \* ensure's loop counter
    mem,        \* caller: record returned by the last successful load or store
    started,    \* caller: load has succeeded since the last (re)start
    rv,         \* return value of the last call that returned
    last,       \* which call returned last: "none", "load" or "store"
    ops,        \* writes and directory syncs issued by the current/last call
    disk0,      \* the directory as it was when the current/last call began
    auth,       \* record reconciled by the current/last load (lines 167-186)
    acked,      \* <<term, voted_for>> of the most recent store that returned 0
    hasAcked,   \* some store has returned 0
    inflight,   \* <<term, voted_for>> of stores cut by a crash since then
    ndebug,     \* the build: TRUE when assert() is compiled out
    calls,      \* number of load/store calls begun
    crashes,    \* number of crashes
    outs        \* for each entry of ops: the filesystem carried it out

vars == <<disk, pc, metadata1, metadata2, metadata, i, mem, started, rv, last, ops, disk0,
          auth, acked, hasAcked, inflight, ndebug, calls, crashes, outs>>

(***************************************************************************)
(* Bounds of the model.                                                    *)
(***************************************************************************)
MaxCalls == 4
MaxCrashes == 2

\* calls and crashes count up from their initial values to these bounds.

(***************************************************************************)
(* 64-bit unsigned integers.                                               *)
(***************************************************************************)
Zero64 == <<0, 0, 0, 0, 0, 0, 0, 0>>

\* The 64-bit value of a natural number below 2^31.
U64(n) == <<0, 0, 0, 0,
            (n \div 16777216) % 256, (n \div 65536) % 256, (n \div 256) % 256, n % 256>>

\* v + 1 modulo 2^64: the carry runs from the least significant byte (k = 8).
RECURSIVE IncFrom(_, _)
IncFrom(v, k) ==
    IF k = 0 THEN v
    ELSE IF v[k] = 255 THEN IncFrom([v EXCEPT ![k] = 0], k - 1)
    ELSE [v EXCEPT ![k] = v[k] + 1]

\* metadata->version++ on an unsigned 64-bit field.
Inc64(v) == IncFrom(v, 8)

\* a > b on unsigned 64-bit values: the most significant differing byte decides.
RECURSIVE GtFrom(_, _, _)
GtFrom(a, b, k) ==
    IF k > 8 THEN FALSE
    ELSE IF a[k] # b[k] THEN a[k] > b[k]
    ELSE GtFrom(a, b, k + 1)

\* uint64 -> unsigned (32 bits): the four low-order bytes are kept.
ToUnsigned(v) == <<v[5], v[6], v[7], v[8]>>

\* uint64 -> int (32 bits, two's complement): the four low-order bytes, the
\* top bit of which is the sign.
ToInt(v) ==
    (IF v[5] >= 128 THEN v[5] - 256 ELSE v[5]) * 16777216
        + v[6] * 65536 + v[7] * 256 + v[8]

\* Variant of Gt64: the versions compared as int.
GtAsInt(a, b) == ToInt(a) > ToInt(b)

\* metadata1.version > metadata2.version, on unsigned 64-bit values.
Gt64(a, b) == GtFrom(a, b, 1)

\* C's x % 2 on int: the remainder has the sign of x.
CRem2(x) == IF x < 0 /\ x % 2 = 1 THEN -1 ELSE x % 2

(***************************************************************************)
(* Record codec.                                                           *)
(***************************************************************************)
UV__DISK_FORMAT == 1

RAFT_MALFORMED == "RAFT_MALFORMED"
RAFT_CORRUPT == "RAFT_CORRUPT"
RAFT_IOERR == "RAFT_IOERR"
OK == "0"

METADATA_CONTENT_SIZE == 8 * 4

\* bytePut64: the 8 bytes of a value as stored, least significant first.
bytePut64(v) == [k \in 1..8 |-> v[9 - k]]

\* byteGet64: the value stored in the 8 bytes at offset off of buf.
byteGet64(buf, off) == [k \in 1..8 |-> buf[off + 9 - k]]

ZeroMetadata == [version |-> Zero64, term |-> Zero64, voted_for |-> Zero64]

encode(m) ==
    bytePut64(U64(UV__DISK_FORMAT)) \o bytePut64(m.version)
        \o bytePut64(m.term) \o bytePut64(m.voted_for)

\* Variant of decode: term and voted_for read from each other's offset.
decodeSwapped(buf) ==
    LET format == ToUnsigned(byteGet64(buf, 0)) IN
    IF format # ToUnsigned(U64(UV__DISK_FORMAT))
    THEN [rv |-> RAFT_MALFORMED, metadata |-> ZeroMetadata]
    ELSE [rv |-> OK,
          metadata |-> [version |-> byteGet64(buf, 8),
                        term |-> byteGet64(buf, 24),
                        voted_for |-> byteGet64(buf, 16)]]

\* decode: [rv, metadata]; the format is held in an `unsigned`.
decode(buf) ==
    LET format == ToUnsigned(byteGet64(buf, 0)) IN
    IF format # ToUnsigned(U64(UV__DISK_FORMAT))
    THEN [rv |-> RAFT_MALFORMED, metadata |-> ZeroMetadata]
    ELSE [rv |-> OK,
          metadata |-> [version |-> byteGet64(buf, 8),
                        term |-> byteGet64(buf, 16),
                        voted_for |-> byteGet64(buf, 24)]]

(***************************************************************************)
(* Slot naming.                                                            *)
(***************************************************************************)
filenameOf(n) == IF n = 1 THEN "metadata1" ELSE "metadata2"

FileNames == {filenameOf(1), filenameOf(2)}

\* indexOf takes the version as an int.
indexOf(version) == IF CRem2(ToInt(version)) = 1 THEN 1 ELSE 2

(***************************************************************************)
(* The filesystem collaborators (UvFs...).  A file is [exists, data].      *)
(***************************************************************************)
NoFile == [exists |-> FALSE, data |-> <<>>]

File(bytes) == [exists |-> TRUE, data |-> bytes]

\* Lengths a file cut short by an interrupted write may be left at.
TornLens == {0, 31}

\* What a create-or-replace write leaves in its file: "done" is the full new
\* content; the others are what a write that fails, or that a crash
\* interrupts, leaves behind.
WriteDone == [kind |-> "done", len |-> METADATA_CONTENT_SIZE]

WriteFailures ==
    {[kind |-> "prior", len |-> 0], [kind |-> "absent", len |-> 0]}
        \cup {[kind |-> "short", len |-> k] : k \in TornLens}

UV__NODATA == "UV__NODATA"
UV__ERROR == "UV__ERROR"

UvFsFileExists(d, filename, ok) ==
    IF ok THEN [rv |-> OK, exists |-> d[filename].exists]
    ELSE [rv |-> UV__ERROR, exists |-> FALSE]

UvFsReadFileInto(d, filename, len, ok) ==
    IF ~ok THEN [rv |-> UV__ERROR, content |-> <<>>]
    ELSE IF Len(d[filename].data) < len THEN [rv |-> UV__NODATA, content |-> <<>>]
    ELSE [rv |-> OK, content |-> SubSeq(d[filename].data, 1, len)]

UvFsMakeOrReplaceFile(d, filename, buf, out) ==
    [rv |-> IF out.kind = "done" THEN OK ELSE UV__ERROR,
     disk |-> CASE out.kind = "done" -> [d EXCEPT ![filename] = File(buf)]
                [] out.kind = "prior" -> d
                [] out.kind = "absent" -> [d EXCEPT ![filename] = NoFile]
                [] out.kind = "short" ->
                       [d EXCEPT ![filename] = File(SubSeq(buf, 1, out.len))]]

UvFsSyncDir(ok) == IF ok THEN OK ELSE UV__ERROR

(***************************************************************************)
(* Recovery: the per-slot read.                                            *)
(***************************************************************************)
\* Variant of loadFile: without the sanity check on the decoded version.
loadFileNoZeroCheck(d, n, existsOk, readOk) ==
    LET filename == filenameOf(n)
        ex == UvFsFileExists(d, filename, existsOk)
        rd == UvFsReadFileInto(d, filename, METADATA_CONTENT_SIZE, readOk)
        dec == decode(rd.content)
    IN  IF ex.rv # OK THEN [rv |-> RAFT_IOERR, metadata |-> ZeroMetadata]
        ELSE IF ~ex.exists THEN [rv |-> OK, metadata |-> ZeroMetadata]
        ELSE IF rd.rv # OK
             THEN [rv |-> IF rd.rv # UV__NODATA THEN RAFT_IOERR ELSE OK,
                   metadata |-> ZeroMetadata]
        ELSE IF dec.rv # OK THEN [rv |-> dec.rv, metadata |-> ZeroMetadata]
        ELSE [rv |-> OK, metadata |-> dec.metadata]

\* loadFile(uv, n, &metadata): [rv, metadata].
loadFile(d, n, existsOk, readOk) ==
    LET filename == filenameOf(n)
        ex == UvFsFileExists(d, filename, existsOk)
        rd == UvFsReadFileInto(d, filename, METADATA_CONTENT_SIZE, readOk)
        dec == decode(rd.content)
    IN  IF ex.rv # OK THEN [rv |-> RAFT_IOERR, metadata |-> ZeroMetadata]
        ELSE IF ~ex.exists THEN [rv |-> OK, metadata |-> ZeroMetadata]
        ELSE IF rd.rv # OK
             THEN [rv |-> IF rd.rv # UV__NODATA THEN RAFT_IOERR ELSE OK,
                   metadata |-> ZeroMetadata]
        ELSE IF dec.rv # OK THEN [rv |-> dec.rv, metadata |-> ZeroMetadata]
        ELSE IF dec.metadata.version = Zero64
             THEN [rv |-> RAFT_CORRUPT, metadata |-> dec.metadata]
        ELSE [rv |-> OK, metadata |-> dec.metadata]

\* Variant of Reconcile: without the check for equal versions.
ReconcileNoTie(m1, m2) ==
    IF m1.version = Zero64 /\ m2.version = Zero64
    THEN [rv |-> OK, metadata |-> ZeroMetadata]
    ELSE IF Gt64(m1.version, m2.version)
    THEN [rv |-> OK, metadata |-> m1]
    ELSE [rv |-> OK, metadata |-> m2]

\* Lines 167-186 of uvMetadataLoad: [rv, metadata] from the two slot records.
Reconcile(m1, m2) ==
    IF m1.version = Zero64 /\ m2.version = Zero64
    THEN [rv |-> OK, metadata |-> ZeroMetadata]
    ELSE IF m1.version = m2.version
    THEN [rv |-> RAFT_CORRUPT, metadata |-> ZeroMetadata]
    ELSE IF Gt64(m1.version, m2.version)
    THEN [rv |-> OK, metadata |-> m1]
    ELSE [rv |-> OK, metadata |-> m2]

(***************************************************************************)
(* The write path.                                                         *)
(***************************************************************************)
\* assert(metadata->version > 0)
StoreAssertion(m) == m.version # Zero64

\* Variant of uvMetadataStore: a failed write reported as RAFT_CORRUPT.
uvMetadataStoreCorrupt(d, m, out) ==
    LET content == encode(m)
        n == indexOf(m.version)
        filename == filenameOf(n)
        w == UvFsMakeOrReplaceFile(d, filename, content, out)
    IN  [rv |-> IF w.rv # OK THEN RAFT_CORRUPT ELSE OK,
         disk |-> w.disk,
         filename |-> filename]

\* Variant of uvMetadataStore: the result of the write is not looked at.
uvMetadataStoreUnchecked(d, m, out) ==
    LET content == encode(m)
        n == indexOf(m.version)
        filename == filenameOf(n)
        w == UvFsMakeOrReplaceFile(d, filename, content, out)
    IN  [rv |-> OK,
         disk |-> w.disk,
         filename |-> filename]

\* uvMetadataStore past its assertion: [rv, disk, filename].
uvMetadataStore(d, m, out) ==
    LET content == encode(m)
        n == indexOf(m.version)
        filename == filenameOf(n)
        w == UvFsMakeOrReplaceFile(d, filename, content, out)
    IN  [rv |-> IF w.rv # OK THEN RAFT_IOERR ELSE OK,
         disk |-> w.disk,
         filename |-> filename]

\* Variant of NextVersion: the caller's record is left as it is.
SameVersion(m) == m

\* metadata->version++ in ensure, on the record uvMetadataLoad hands back.
NextVersion(m) == [m EXCEPT !.version = Inc64(@)]

\* uvMetadataLoad run to its end with no filesystem failure and no crash:
\* [rv, metadata, disk]; rv is "aborted" when the assertion in
\* uvMetadataStore fails.
uvMetadataLoad(d) ==
    LET r1 == loadFile(d, 1, TRUE, TRUE)
        r2 == loadFile(d, 2, TRUE, TRUE)
        rec == Reconcile(r1.metadata, r2.metadata)
        m1 == NextVersion(rec.metadata)
        w1 == uvMetadataStore(d, m1, WriteDone)
        m2 == NextVersion(m1)
        w2 == uvMetadataStore(w1.disk, m2, WriteDone)
    IN  IF r1.rv # OK THEN [rv |-> r1.rv, metadata |-> ZeroMetadata, disk |-> d]
        ELSE IF r2.rv # OK THEN [rv |-> r2.rv, metadata |-> ZeroMetadata, disk |-> d]
        ELSE IF rec.rv # OK THEN [rv |-> rec.rv, metadata |-> ZeroMetadata, disk |-> d]
        ELSE IF ~ndebug /\ ~StoreAssertion(m1)
        THEN [rv |-> "aborted", metadata |-> m1, disk |-> d]
        ELSE IF ~ndebug /\ ~StoreAssertion(m2)
        THEN [rv |-> "aborted", metadata |-> m2, disk |-> w1.disk]
        ELSE [rv |-> OK, metadata |-> m2, disk |-> w2.disk]

(***************************************************************************)
(* Initial states.                                                         *)
(***************************************************************************)
InitWith(d, stored, pair, c, k) ==
    /\ disk = d
    /\ pc = "idle"
    /\ metadata1 = ZeroMetadata
    /\ metadata2 = ZeroMetadata
    /\ metadata = ZeroMetadata
    /\ i = 0
    /\ mem = ZeroMetadata
    /\ started = FALSE
    /\ rv = "none"
    /\ last = "none"
    /\ ops = <<>>
    /\ outs = <<>>
    /\ disk0 = d
    /\ auth = ZeroMetadata
    /\ acked = pair
    /\ hasAcked = stored
    /\ inflight = {}
    /\ ndebug \in BOOLEAN
    /\ calls = c
    /\ crashes = k

EmptyDir == [f \in FileNames |-> NoFile]

\* Lengths of the runs of writes that have filled the directory before the
\* model takes over: none (the empty directory), or a run that has brought
\* the version close to the largest value an int holds.  Such a run is one
\* load followed by stores: below 2^31 indexOf follows the parity of the
\* version, each write replaces the older slot, and after k writes the
\* directory holds versions k-1 and k.
StartRuns == {0, 2147483646}

StartPair == <<U64(1), U64(1)>>

\* The directory after k writes with versions 1..k (each one more than the
\* last): the last two, k-1 and k, are the ones still on disk.
DirAfterRun(k) ==
    IF k = 0 THEN EmptyDir
    ELSE LET rec(v) == [version |-> U64(v), term |-> StartPair[1],
                        voted_for |-> StartPair[2]]
             d1 == uvMetadataStore(EmptyDir, rec(k - 1), WriteDone).disk
         IN  uvMetadataStore(d1, rec(k), WriteDone).disk

Init == \E k \in StartRuns : InitWith(DirAfterRun(k), k > 0, StartPair, 0, 0)

(***************************************************************************)
(* uvMetadataLoad, step by step.                                           *)
(***************************************************************************)
\* The caller invokes uvMetadataLoad.
LoadCall ==
    /\ pc = "idle"
    /\ calls < MaxCalls
    /\ calls' = calls + 1
    /\ pc' = "loadFile1"
    /\ metadata1' = ZeroMetadata
    /\ metadata2' = ZeroMetadata
    /\ metadata' = ZeroMetadata
    /\ auth' = ZeroMetadata
    /\ i' = 0
    /\ rv' = "none"
    /\ last' = "none"
    /\ ops' = <<>>
    /\ outs' = <<>>
    /\ disk0' = disk
    /\ UNCHANGED <<disk, mem, started, acked, hasAcked, inflight, ndebug, crashes>>

\* uvMetadataLoad returns an error: the caller is left without a record.
LoadFails(code) ==
    /\ pc' = "idle"
    /\ rv' = code
    /\ last' = "load"
    /\ mem' = ZeroMetadata
    /\ started' = FALSE

\* Lines 155-158.
LoadFile1 ==
    /\ pc = "loadFile1"
    /\ \E existsOk \in BOOLEAN, readOk \in BOOLEAN :
          LET r == loadFile(disk, 1, existsOk, readOk) IN
          IF r.rv # OK
          THEN /\ LoadFails(r.rv)
               /\ UNCHANGED metadata1
          ELSE /\ metadata1' = r.metadata
               /\ pc' = "loadFile2"
               /\ UNCHANGED <<rv, last, mem, started>>
    /\ UNCHANGED <<disk, metadata2, metadata, i, ops, outs, disk0, auth, acked, hasAcked,
                   inflight, ndebug, calls, crashes>>

\* Lines 161-186.
LoadFile2 ==
    /\ pc = "loadFile2"
    /\ \E existsOk \in BOOLEAN, readOk \in BOOLEAN :
          LET r == loadFile(disk, 2, existsOk, readOk)
              rec == Reconcile(metadata1, r.metadata)
          IN  IF r.rv # OK
              THEN /\ LoadFails(r.rv)
                   /\ UNCHANGED <<metadata2, metadata, auth>>
              ELSE IF rec.rv # OK
              THEN /\ LoadFails(rec.rv)
                   /\ metadata2' = r.metadata
                   /\ UNCHANGED <<metadata, auth>>
              ELSE /\ metadata2' = r.metadata
                   /\ metadata' = rec.metadata
                   /\ auth' = rec.metadata
                   /\ pc' = "ensure"
                   /\ UNCHANGED <<rv, last, mem, started>>
    /\ UNCHANGED <<disk, metadata1, i, ops, outs, disk0, acked, hasAcked, inflight,
                   ndebug, calls, crashes>>

\* Lines 120-126 of ensure: one turn of the loop.
EnsureStore ==
    /\ pc = "ensure"
    /\ LET m == NextVersion(metadata) IN
       /\ metadata' = m
       /\ IF ~ndebug /\ ~StoreAssertion(m)
          THEN /\ pc' = "aborted"
               /\ UNCHANGED <<disk, i, ops, outs, rv, last, mem, started>>
          ELSE \E out \in {WriteDone} \cup WriteFailures :
                  LET w == uvMetadataStore(disk, m, out) IN
                  /\ disk' = w.disk
                  /\ ops' = Append(ops, w.filename)
                  /\ outs' = Append(outs, out.kind = "done")
                  /\ IF w.rv # OK
                     THEN /\ LoadFails(w.rv)
                          /\ UNCHANGED i
                     ELSE /\ i' = i + 1
                          /\ pc' = IF i + 1 < 2 THEN "ensure" ELSE "syncDir"
                          /\ UNCHANGED <<rv, last, mem, started>>
    /\ UNCHANGED <<metadata1, metadata2, disk0, auth, acked, hasAcked, inflight,
                   ndebug, calls, crashes>>

\* Lines 128-135 of ensure, and the return of uvMetadataLoad (190-194).
EnsureSyncDir ==
    /\ pc = "syncDir"
    /\ \E ok \in BOOLEAN :
          /\ ops' = Append(ops, "sync")
          /\ outs' = Append(outs, ok)
          /\ IF UvFsSyncDir(ok) # OK
             THEN LoadFails(RAFT_IOERR)
             ELSE /\ pc' = "idle"
                  /\ rv' = OK
                  /\ last' = "load"
                  /\ mem' = metadata
                  /\ started' = TRUE
    /\ UNCHANGED <<disk, metadata1, metadata2, metadata, i, disk0, auth, acked,
                   hasAcked, inflight, ndebug, calls, crashes>>

(***************************************************************************)
(* uvMetadataStore, called by the consensus engine.                        *)
(***************************************************************************)
\* The <<term, voted_for>> pairs the caller may persist.
StorePairs == {<<U64(2), U64(5)>>, <<U64(3), Zero64>>, <<U64(3), U64(7)>>}

\* The caller takes the record of its last successful load or store, adds one
\* to the version, sets term and vote, and invokes uvMetadataStore.
StoreCall ==
    /\ pc = "idle"
    /\ started
    /\ calls < MaxCalls
    /\ calls' = calls + 1
    /\ \E p \in StorePairs :
          metadata' = [version |-> Inc64(mem.version), term |-> p[1],
                       voted_for |-> p[2]]
    /\ pc' = "store"
    /\ rv' = "none"
    /\ last' = "none"
    /\ ops' = <<>>
    /\ outs' = <<>>
    /\ disk0' = disk
    /\ UNCHANGED <<disk, metadata1, metadata2, i, mem, started, auth, acked,
                   hasAcked, inflight, ndebug, crashes>>

\* Lines 206-224.
StoreWrite ==
    /\ pc = "store"
    /\ IF ~ndebug /\ ~StoreAssertion(metadata)
       THEN /\ pc' = "aborted"
            /\ UNCHANGED <<disk, ops, outs, rv, last, mem, acked, hasAcked,
                         inflight>>
       ELSE \E out \in {WriteDone} \cup WriteFailures :
               LET w == uvMetadataStore(disk, metadata, out) IN
               /\ disk' = w.disk
               /\ ops' = Append(ops, w.filename)
               /\ outs' = Append(outs, out.kind = "done")
               /\ pc' = "idle"
               /\ rv' = w.rv
               /\ last' = "store"
               /\ IF w.rv = OK
                  THEN /\ mem' = metadata
                       /\ acked' = <<metadata.term, metadata.voted_for>>
                       /\ hasAcked' = TRUE
                       /\ inflight' = {}
                  ELSE UNCHANGED <<mem, acked, hasAcked, inflight>>
    /\ UNCHANGED <<metadata1, metadata2, metadata, i, started, disk0, auth,
                   ndebug, calls, crashes>>

(***************************************************************************)
(* Crash and restart: memory is lost, the directory stays.  A crash that   *)
(* comes while a write is under way leaves that write's file as its prior  *)
(* content, absent, short, or as the full new content.                     *)
(***************************************************************************)
Crash ==
    /\ crashes < MaxCrashes
    /\ crashes' = crashes + 1
    /\ LET m == IF pc = "ensure" THEN NextVersion(metadata) ELSE metadata
       IN  IF pc \in {"ensure", "store"} /\ (ndebug \/ StoreAssertion(m))
           THEN \E out \in {WriteDone} \cup WriteFailures :
                   disk' = uvMetadataStore(disk, m, out).disk
           ELSE disk' = disk
    /\ inflight' = IF pc = "store"
                   THEN inflight \cup {<<metadata.term, metadata.voted_for>>}
                   ELSE inflight
    /\ pc' = "idle"
    /\ metadata1' = ZeroMetadata
    /\ metadata2' = ZeroMetadata
    /\ metadata' = ZeroMetadata
    /\ i' = 0
    /\ mem' = ZeroMetadata
    /\ started' = FALSE
    /\ rv' = "none"
    /\ last' = "none"
    /\ ops' = <<>>
    /\ outs' = <<>>
    /\ disk0' = disk'
    /\ auth' = ZeroMetadata
    /\ UNCHANGED <<acked, hasAcked, ndebug, calls>>

Next ==
    \/ LoadCall
    \/ LoadFile1
    \/ LoadFile2
    \/ EnsureStore
    \/ EnsureSyncDir
    \/ StoreCall
    \/ StoreWrite
    \/ Crash

\* The program started on a directory it has filled itself.
Spec == Init /\ [][Next]_vars

(***************************************************************************)
(* The program started on a directory of arbitrary content.                *)
(***************************************************************************)
Max64 == <<255, 255, 255, 255, 255, 255, 255, 255>>

AnyVersions ==
    {Zero64, U64(1), U64(3), U64(4), U64(2147483647),
     <<0, 0, 0, 0, 128, 0, 0, 0>>, [Max64 EXCEPT ![8] = 254], Max64}

\* The expected format, one that differs from it in the low 32 bits, and one
\* that differs from it only above them.
AnyFormats == {U64(UV__DISK_FORMAT), U64(2), <<0, 0, 0, 1, 0, 0, 0, 1>>}

AnyPairs == {<<U64(2), U64(5)>>, <<U64(3), Zero64>>}

\* 32 bytes holding the four given fields.
Content(format, m) ==
    bytePut64(format) \o bytePut64(m.version) \o bytePut64(m.term)
        \o bytePut64(m.voted_for)

AnyFiles ==
    {NoFile}
        \cup {File(Content(f, [version |-> v, term |-> p[1], voted_for |-> p[2]])) :
                f \in AnyFormats, v \in AnyVersions, p \in AnyPairs}
        \cup {File(SubSeq(Content(U64(UV__DISK_FORMAT),
                                  [version |-> U64(4), term |-> U64(3),
                                   voted_for |-> Zero64]), 1, k)) : k \in TornLens}

\* Calls and crashes the model follows from an arbitrary directory.
AnyCalls == 2
AnyCrashes == 1

InitAny ==
    \E d \in [FileNames -> AnyFiles] :
        InitWith(d, FALSE, StartPair, MaxCalls - AnyCalls, MaxCrashes - AnyCrashes)

SpecAny == InitAny /\ [][Next]_vars

(***************************************************************************)
(* The record codec on its own: a record and a 32-byte buffer are given,   *)
(* the buffer is decoded as it is, or the record is encoded into it and    *)
(* the result decoded.                                                     *)
(***************************************************************************)
CodecFields == {Zero64, U64(5), <<0, 0, 0, 1, 0, 0, 0, 0>>, Max64}

CodecRecords ==
    {[version |-> v, term |-> t, voted_for |-> f] :
        v \in AnyVersions, t \in CodecFields, f \in CodecFields}

InitCodec ==
    \E m \in CodecRecords, format \in AnyFormats :
        /\ disk = [EmptyDir EXCEPT ![filenameOf(1)] = File(Content(format, m))]
        /\ pc = "codec"
        /\ metadata1 = ZeroMetadata
        /\ metadata2 = ZeroMetadata
        /\ metadata = m
        /\ i = 0
        /\ mem = ZeroMetadata
        /\ started = FALSE
        /\ rv = "none"
        /\ last = "none"
        /\ ops = <<>>
        /\ outs = <<>>
        /\ disk0 = disk
        /\ auth = ZeroMetadata
        /\ acked = StartPair
        /\ hasAcked = FALSE
        /\ inflight = {}
        /\ ndebug = FALSE
        /\ calls = 0
        /\ crashes = 0

\* Lines 15-22: the record is encoded into the buffer.
CodecEncode ==
    /\ pc = "codec"
    /\ disk' = [disk EXCEPT ![filenameOf(1)] = File(encode(metadata))]
    /\ pc' = "encoded"
    /\ UNCHANGED <<metadata1, metadata2, metadata, i, mem, started, rv, last, ops,
                   outs, disk0, auth, acked, hasAcked, inflight, ndebug, calls,
                   crashes>>

\* Lines 25-37: the buffer is decoded into metadata1.
CodecDecode ==
    /\ pc \in {"codec", "encoded"}
    /\ LET r == decode(disk[filenameOf(1)].data) IN
       /\ rv' = r.rv
       /\ metadata1' = r.metadata
    /\ pc' = IF pc = "codec" THEN "decoded" ELSE "roundtrip"
    /\ UNCHANGED <<disk, metadata2, metadata, i, mem, started, last, ops, outs,
                   disk0, auth, acked, hasAcked, inflight, ndebug, calls, crashes>>

NextCodec ==
    \/ CodecEncode
    \/ CodecDecode

SpecCodec == InitCodec /\ [][NextCodec]_vars

(***************************************************************************)
(* What the claims read off the directory.                                 *)
(***************************************************************************)
Slot(d, n) == d[filenameOf(n)]

\* A slot file that is fully present (32 bytes); otherwise absent or torn.
Complete(f) == f.exists /\ Len(f.data) = METADATA_CONTENT_SIZE

FormatIn(f) == byteGet64(f.data, 0)
VersionIn(f) == byteGet64(f.data, 8)
TermIn(f) == byteGet64(f.data, 16)
VotedForIn(f) == byteGet64(f.data, 24)

\* The per-slot version, an absent or torn slot counting as version 0.
SlotVersion(d, n) == IF Complete(Slot(d, n)) THEN VersionIn(Slot(d, n)) ELSE Zero64

Odd(v) == v[8] % 2 = 1

\* Slot naming as specified: 1 for an odd version, 2 for an even one.
ParitySlot(v) == IF Odd(v) THEN 1 ELSE 2

Other(n) == 3 - n

\* a is strictly greater than b as a 64-bit unsigned number.
Greater(a, b) ==
    \E k \in 1..8 : a[k] > b[k] /\ \A j \in 1..(k - 1) : a[j] = b[j]

\* The file a completed store of the record leaves.
Stored(version, term, votedFor) ==
    File(Content(U64(UV__DISK_FORMAT),
                 [version |-> version, term |-> term, voted_for |-> votedFor]))

LoadReturned == pc = "idle" /\ last = "load"
LoadSucceeded == LoadReturned /\ rv = OK

(***************************************************************************)
(* C1  Crash durability.  From the empty directory, through loads, stores  *)
(* (version one more than that of the last successful load or store) and   *)
(* crashes at any step, every load that succeeds returns the term and      *)
(* votedFor of the most recent store that returned success, or of a store  *)
(* that was in flight at a later crash; before any store has succeeded it  *)
(* returns zeros or such an in-flight store.                               *)
(***************************************************************************)
C1_CrashDurability ==
    LoadSucceeded =>
        LET p == <<mem.term, mem.voted_for>> IN
        \/ p \in inflight
        \/ IF hasAcked THEN p = acked ELSE p = <<Zero64, Zero64>>

(***************************************************************************)
(* C2  In every reachable state, a slot holding the highest version on     *)
(* disk is the only one to hold it, and the other slot holds exactly that  *)
(* version minus 1 or is absent or torn.                                   *)
(***************************************************************************)
C2_AdjacentVersions ==
    \A n \in {1, 2} :
        LET f == Slot(disk, n)
            g == Slot(disk, Other(n))
        IN  (Complete(f) /\ Complete(g) /\ ~Greater(VersionIn(g), VersionIn(f)))
                => Inc64(VersionIn(g)) = VersionIn(f)

(***************************************************************************)
(* C3  In every reachable state the two slots never hold equal non-zero    *)
(* versions, slot 1 only ever holds odd versions and slot 2 only even      *)
(* ones, and load never returns Corrupt for a version tie.                 *)
(***************************************************************************)
C3_SlotParity ==
    /\ ~(/\ Complete(Slot(disk, 1))
         /\ Complete(Slot(disk, 2))
         /\ VersionIn(Slot(disk, 1)) = VersionIn(Slot(disk, 2))
         /\ VersionIn(Slot(disk, 1)) # Zero64)
    /\ Complete(Slot(disk, 1)) => Odd(VersionIn(Slot(disk, 1)))
    /\ Complete(Slot(disk, 2)) => ~Odd(VersionIn(Slot(disk, 2)))
    /\ ~(/\ LoadReturned
         /\ rv = RAFT_CORRUPT
         /\ metadata1.version = metadata2.version
         /\ metadata1.version # Zero64)

(***************************************************************************)
(* C4  Normalization post-state.  Whenever load returns success having     *)
(* reconciled the record {a, t, f}, both slot files are complete, the slot *)
(* of the parity of a+1 holds {a+1, t, f}, the slot of the parity of a+2   *)
(* holds {a+2, t, f}, and the directory sync was issued after both writes. *)
(***************************************************************************)
C4_NormalizedAfterLoad ==
    LoadSucceeded =>
        LET a1 == Inc64(auth.version)
            a2 == Inc64(a1)
        IN  /\ Complete(Slot(disk, 1))
            /\ Complete(Slot(disk, 2))
            /\ Slot(disk, ParitySlot(a1)) = Stored(a1, auth.term, auth.voted_for)
            /\ Slot(disk, ParitySlot(a2)) = Stored(a2, auth.term, auth.voted_for)
            /\ Len(ops) = 3
            /\ ops[1] \in FileNames
            /\ ops[2] \in FileNames
            /\ ops[3] = "sync"

(***************************************************************************)
(* C5  As claimed: the record that load returns carries the version as     *)
(* read from disk, not advanced by normalization; from the directory with  *)
(* no slot files load returns {0, 0, 0} and leaves versions 1 and 2; from  *)
(* slot 1 = {3, 2, 5} and slot 2 = {4, 2, 5} it returns version 4 and      *)
(* writes versions 5 and 6.                                                *)
(***************************************************************************)
ResumeDir ==
    [f \in FileNames |->
        IF f = filenameOf(1) THEN Stored(U64(3), U64(2), U64(5))
        ELSE Stored(U64(4), U64(2), U64(5))]

C5_ReturnsVersionAsRead ==
    LoadSucceeded =>
        /\ mem = auth
        /\ disk0 = EmptyDir => mem = ZeroMetadata
        /\ disk0 = ResumeDir => mem.version = U64(4)

(***************************************************************************)
(* C5, amended: the record that load returns carries the term and votedFor *)
(* of the reconciled record and its version advanced by 2, the higher of   *)
(* the two versions normalization writes; from the directory with no slot  *)
(* files load returns {2, 0, 0} and leaves versions 1 and 2; from slot 1 = *)
(* {3, 2, 5} and slot 2 = {4, 2, 5} it reconciles {4, 2, 5}, writes        *)
(* versions 5 and 6 and returns {6, 2, 5}.                                 *)
(***************************************************************************)
C5_ReturnsVersionAdvanced ==
    LoadSucceeded =>
        /\ mem.term = auth.term
        /\ mem.voted_for = auth.voted_for
        /\ mem.version = Inc64(Inc64(auth.version))
        /\ disk0 = EmptyDir =>
              /\ auth = ZeroMetadata
              /\ mem = [version |-> U64(2), term |-> Zero64, voted_for |-> Zero64]
              /\ Slot(disk, 1) = Stored(U64(1), Zero64, Zero64)
              /\ Slot(disk, 2) = Stored(U64(2), Zero64, Zero64)
        /\ disk0 = ResumeDir =>
              /\ auth = [version |-> U64(4), term |-> U64(2), voted_for |-> U64(5)]
              /\ mem = [version |-> U64(6), term |-> U64(2), voted_for |-> U64(5)]
              /\ Slot(disk, 1) = Stored(U64(5), U64(2), U64(5))
              /\ Slot(disk, 2) = Stored(U64(6), U64(2), U64(5))

C5_Witness == LoadSucceeded /\ disk0 = ResumeDir /\ mem.version = U64(6)

(***************************************************************************)
(* C6  Reconciliation picks the newer slot.  Whenever load succeeds and    *)
(* the two per-slot versions differ (absent or torn counting as 0), the    *)
(* term and votedFor it returns are those of the slot with the strictly    *)
(* greater version, and so are those of every file normalization has       *)
(* written; when both per-slot versions are 0 they are 0 and 0.            *)
(***************************************************************************)
\* Every slot file the running load has replaced carries t and f.
WritesCarry(t, f) ==
    \A n \in {1, 2} :
        (Slot(disk, n) # Slot(disk0, n) /\ Complete(Slot(disk, n)))
            => TermIn(Slot(disk, n)) = t /\ VotedForIn(Slot(disk, n)) = f

Normalizing == pc \in {"ensure", "syncDir"} \/ LoadSucceeded

C6_NewerSlotWins ==
    Normalizing =>
        /\ (SlotVersion(disk0, 1) = Zero64 /\ SlotVersion(disk0, 2) = Zero64)
              => /\ WritesCarry(Zero64, Zero64)
                 /\ LoadSucceeded => mem.term = Zero64 /\ mem.voted_for = Zero64
        /\ \A n \in {1, 2} :
              Greater(SlotVersion(disk0, n), SlotVersion(disk0, Other(n)))
                  => LET f == Slot(disk0, n) IN
                     /\ WritesCarry(TermIn(f), VotedForIn(f))
                     /\ LoadSucceeded
                           => mem.term = TermIn(f) /\ mem.voted_for = VotedForIn(f)

C6_Witness ==
    /\ LoadSucceeded
    /\ Complete(Slot(disk0, 1))
    /\ Complete(Slot(disk0, 2))
    /\ Greater(VersionIn(Slot(disk0, 1)), VersionIn(Slot(disk0, 2)))
    /\ TermIn(Slot(disk0, 1)) # TermIn(Slot(disk0, 2))
    /\ Slot(disk, 1) # Slot(disk0, 1)
    /\ Slot(disk, 2) # Slot(disk0, 2)

(***************************************************************************)
(* C7  A slot file that holds fewer than 32 bytes is handled exactly like  *)
(* an absent slot: load raises no error for it, and (no filesystem call    *)
(* failing) its result and, when it succeeds, the final contents of both   *)
(* slots are those of a load of the directory without that file.           *)
(***************************************************************************)
Torn(f) == f.exists /\ Len(f.data) < METADATA_CONTENT_SIZE

Untorn(d) == [f \in FileNames |-> IF Torn(d[f]) THEN NoFile ELSE d[f]]

C7_TornAsAbsent ==
    (LoadReturned /\ rv # RAFT_IOERR /\ \E f \in FileNames : Torn(disk0[f]))
        => LET o == uvMetadataLoad(Untorn(disk0)) IN
           /\ rv = o.rv
           /\ rv = OK => mem = o.metadata /\ disk = o.disk

(***************************************************************************)
(* C8  If both slots are fully present, correctly tagged and hold the same *)
(* non-zero version, load returns Corrupt (IOError if a filesystem call    *)
(* fails first) and performs no normalization write: both slot files are   *)
(* unchanged and no directory sync is issued.                              *)
(***************************************************************************)
Tagged(f) == Complete(f) /\ FormatIn(f) = U64(UV__DISK_FORMAT)

Tie(d) ==
    /\ Tagged(Slot(d, 1))
    /\ Tagged(Slot(d, 2))
    /\ VersionIn(Slot(d, 1)) = VersionIn(Slot(d, 2))
    /\ VersionIn(Slot(d, 1)) # Zero64

Loading == pc \in {"loadFile1", "loadFile2", "ensure", "syncDir"}

C8_TieIsCorrupt ==
    (Tie(disk0) /\ (Loading \/ LoadReturned)) =>
        /\ pc \notin {"ensure", "syncDir"}
        /\ ops = <<>>
        /\ disk = disk0
        /\ LoadReturned => rv \in {RAFT_CORRUPT, RAFT_IOERR}

C8_Witness ==
    /\ LoadReturned
    /\ rv = RAFT_CORRUPT
    /\ Tie(disk0)
    /\ TermIn(Slot(disk0, 1)) # TermIn(Slot(disk0, 2))

(***************************************************************************)
(* C9  (for slot 1, the slot read first)  If the slot is fully present     *)
(* with a format tag different from the expected constant, load returns    *)
(* Malformed (no filesystem call failing), whatever the other slot         *)
(* contains.                                                               *)
(***************************************************************************)
C9_WrongFormatIsMalformed ==
    (/\ LoadReturned
     /\ rv # RAFT_IOERR
     /\ Complete(Slot(disk0, 1))
     /\ FormatIn(Slot(disk0, 1)) # U64(UV__DISK_FORMAT))
        => rv = RAFT_MALFORMED

(***************************************************************************)
(* C10  As claimed: if either slot is fully present with the correct       *)
(* format tag and an encoded version of 0, load returns Corrupt (no        *)
(* filesystem call failing), whatever the other slot contains.             *)
(***************************************************************************)
ZeroVersioned(f) == Tagged(f) /\ VersionIn(f) = Zero64

Wrote == ops # <<>> /\ ops[Len(ops)] \in FileNames
Written == ops[Len(ops)]

(***************************************************************************)
(* C11  Alternation.  In the sequence of store calls that starts at        *)
(* version 1 and adds one each time, the k-th call (the one for version k) *)
(* writes slot 1 when k is odd and slot 2 when k is even, and two calls in *)
(* a row never write the same slot.                                        *)
(***************************************************************************)
C11_Alternation ==
    /\ Wrote => Written = filenameOf(ParitySlot(metadata.version))
    /\ (Len(ops) >= 2 /\ ops[1] \in FileNames /\ ops[2] \in FileNames)
           => ops[1] # ops[2]

(***************************************************************************)
(* C12  Slot naming over the whole 64-bit range.  For every version from 1 *)
(* to 2^64-1, those that do not fit in a signed 32-bit integer included, a *)
(* store of a record with that version that is carried out leaves the      *)
(* record's encoding in slot 1 when the version is odd and in slot 2 when  *)
(* it is even.                                                             *)
(***************************************************************************)
C12_SlotByParity ==
    (Wrote /\ outs[Len(outs)] /\ metadata.version # Zero64)
        => Slot(disk, ParitySlot(metadata.version)) = File(encode(metadata))

(***************************************************************************)
(* C13  decode returns Malformed for every 32-byte buffer whose first      *)
(* 64-bit field differs from the expected format tag in any of its 64      *)
(* bits, whatever the other bytes are, and succeeds only when the whole    *)
(* field equals the tag.                                                   *)
(***************************************************************************)
C13_FullTagCompared ==
    pc = "decoded" =>
        (rv = RAFT_MALFORMED <=> FormatIn(Slot(disk, 1)) # U64(UV__DISK_FORMAT))

(***************************************************************************)
(* C14  Round trip.  For every record with a version above 0 and any       *)
(* 64-bit term and voted_for, decoding the encoding of the record succeeds *)
(* and yields a record equal to it field by field.                         *)
(***************************************************************************)
C14_RoundTrip ==
    (pc = "roundtrip" /\ metadata.version # Zero64)
        => rv = OK /\ metadata1 = metadata

\* A round trip of a record whose three fields differ and use the high bits.
C14_Witness ==
    /\ pc = "roundtrip"
    /\ metadata = [version |-> Max64, term |-> <<0, 0, 0, 1, 0, 0, 0, 0>>,
                   voted_for |-> U64(5)]
    /\ Slot(disk, 1) = File(encode(metadata))
    /\ rv = OK

(***************************************************************************)
(* C15  A store call for a record of version v issues exactly one write,   *)
(* to the slot selected by v's parity and with the record's 32-byte        *)
(* encoding; the other slot's file and the record passed by the caller are *)
(* unchanged, whether store returns success or IOError.                    *)
(***************************************************************************)
C15_StoreFrame ==
    [][(pc = "store" /\ pc' = "idle" /\ last' = "store") =>
          LET n == ParitySlot(metadata.version) IN
          /\ ops' = <<filenameOf(n)>>
          /\ outs'[1] => Slot(disk', n) = File(encode(metadata))
          /\ Slot(disk', Other(n)) = Slot(disk, Other(n))
          /\ metadata' = metadata
          /\ rv' = IF outs'[1] THEN OK ELSE RAFT_IOERR]_vars

(***************************************************************************)
(* C16  When load returns an error raised while reading or reconciling the *)
(* slots (IOError from the existence check or the read, Malformed,         *)
(* Corrupt), it has issued no write and no directory sync, and both slot   *)
(* files are as they were before the call; Malformed and Corrupt are       *)
(* raised nowhere else.                                                    *)
(***************************************************************************)
C16_ReadErrorsWriteNothing ==
    [][/\ (pc \in {"loadFile1", "loadFile2"} /\ pc' = "idle" /\ last' = "load")
            => (/\ rv' \in {RAFT_IOERR, RAFT_MALFORMED, RAFT_CORRUPT}
                /\ ops' = <<>>
                /\ disk' = disk0')
       /\ (pc' = "idle" /\ last' = "load" /\ rv' \in {RAFT_MALFORMED, RAFT_CORRUPT})
            => (pc \in {"loadFile1", "loadFile2"} /\ ops' = <<>> /\ disk' = disk0')]_vars

\* Slot 1 was read and decoded, then slot 2 was found malformed.
C16_Witness ==
    /\ LoadReturned
    /\ rv = RAFT_MALFORMED
    /\ metadata1.version # Zero64
    /\ Complete(Slot(disk, 1))
    /\ Complete(Slot(disk, 2))
    /\ ops = <<>>

(***************************************************************************)
(* C17  If the first normalization write, the second normalization write   *)
(* or the directory sync fails, load returns IOError and not success;      *)
(* after a failed first write neither the second write nor the sync is     *)
(* attempted, and after a failed second write the sync is not attempted.   *)
(***************************************************************************)
C17_NormalizationFailureStops ==
    (pc \in {"ensure", "syncDir"} \/ LoadReturned) =>
        \A k \in 1..Len(outs) :
            ~outs[k] => (k = Len(outs) /\ LoadReturned /\ rv = RAFT_IOERR)

\* The second write of a normalization has failed.
C17_Witness ==
    /\ LoadReturned
    /\ rv = RAFT_IOERR
    /\ outs = <<TRUE, FALSE>>
    /\ ops[1] \in FileNames
    /\ ops[2] \in FileNames

(***************************************************************************)
(* C18  Every store call made by load's normalization has a version above  *)
(* 0, so the assertion of store never fails there, whatever authoritative  *)
(* version load has read in the 64-bit range, 2^64-2 and 2^64-1 included.  *)
(***************************************************************************)
C18_NormalizationVersionPositive ==
    /\ ~(pc = "aborted" /\ i < 2)
    /\ (pc \in {"ensure", "syncDir"} /\ ops # <<>>) => StoreAssertion(metadata)

\* The slots that held the authoritative record when the load began.
AuthSlots ==
    {n \in {1, 2} : /\ Complete(Slot(disk0, n))
                    /\ VersionIn(Slot(disk0, n)) = auth.version}

\* Some complete slot holds the authoritative term and voted_for.
AuthOnDisk ==
    \E n \in {1, 2} :
        /\ Complete(Slot(disk, n))
        /\ TermIn(Slot(disk, n)) = auth.term
        /\ VotedForIn(Slot(disk, n)) = auth.voted_for

(***************************************************************************)
(* C19  Normalization is crash-safe.  In every state reached through load, *)
(* store and crashes, the first normalization write of a load targets the  *)
(* slot that does not hold the authoritative record, the slot that holds   *)
(* it is overwritten only by the second write, after the first has         *)
(* returned, and so at every point of the load at least one complete slot  *)
(* holds the authoritative term and voted_for.                             *)
(***************************************************************************)
C19_NormalizationCrashSafe ==
    ((pc \in {"ensure", "syncDir"} \/ LoadReturned) /\ auth.version # Zero64) =>
        /\ ops # <<>> => \A n \in AuthSlots : ops[1] # filenameOf(n)
        /\ Len(ops) <= 1 => \A n \in AuthSlots : Slot(disk, n) = Slot(disk0, n)
        /\ AuthOnDisk

\* The slot whose file is f.
SlotOf(f) == IF f = filenameOf(1) THEN 1 ELSE 2

(***************************************************************************)
(* C20  Load-then-store continuity.  After a load that returned success, a *)
(* store of the returned record with its version incremented by 1 writes   *)
(* the slot that holds the older of the two versions on disk and leaves    *)
(* the slot that holds the newest untouched, so that a load that follows   *)
(* returns the term and voted_for of that store.                           *)
(***************************************************************************)
C20_LoadThenStore ==
    (/\ pc = "idle"
     /\ last = "store"
     /\ metadata.version = Inc64(Inc64(Inc64(auth.version)))) =>
        LET old == Slot(disk0, SlotOf(ops[1]))
            new == Slot(disk0, Other(SlotOf(ops[1])))
            r == uvMetadataLoad(disk)
        IN  /\ Complete(new)
            /\ Complete(old) => Greater(VersionIn(new), VersionIn(old))
            /\ Slot(disk, Other(SlotOf(ops[1]))) = new
            /\ rv = OK => /\ r.rv = OK
                          /\ r.metadata.term = metadata.term
                          /\ r.metadata.voted_for = metadata.voted_for

====
